---- MODULE Spec2Model ----
(***************************************************************************)
(* Model of migrate_assets.py: a linear script that wipes a destination    *)
(* directory, writes a root Contents.json, and for every image file of a   *)
(* source directory creates <name>.imageset holding a copy of the image    *)
(* and a Contents.json descriptor.                                         *)
(*                                                                         *)
(* File names are sequences of one-character strings so that lower(),      *)
(* endswith() and os.path.splitext() are computed as Python computes them. *)
(* A filesystem tree is a record [kind, entries]; entries maps a path (a   *)
(* sequence of names relative to the tree's root) to a node [kind, data].  *)
(* Names are compared exactly (case-sensitive filesystem).  Only failures  *)
(* that the filesystem state itself causes are modelled (missing source,   *)
(* destination that is a regular file, existing container, copying a       *)
(* directory); transient I/O faults (permissions, disk full) are not.      *)
(***************************************************************************)
EXTENDS Integers, Sequences, FiniteSets, TLC

VARIABLES
    src,        \* the source directory tree (source_dir)
    dst,        \* the destination tree (dest_dir)
    pc,         \* position of the script
    files,      \* the list built at line 21
    idx,        \* index in files of the file the loop is processing
    printed,    \* number of "Migration complete" lines printed by this run
    log,        \* history: the steps this run has carried out successfully
    failedAt,   \* the step at which this run raised, "" if it has not
    run,        \* number of the run in progress
    src0,       \* history: the source as it was before the first run
    dst0,       \* history: the destination as it was when this run started
    firstOk,    \* history: some run has completed
    firstTree,  \* history: the destination left by the first completed run
    firstFiles  \* history: the listing order of the first completed run

vars == <<src, dst, pc, files, idx, printed, log, failedAt, run,
          src0, dst0, firstOk, firstTree, firstFiles>>

----------------------------------------------------------------------------
(* Bounds *)

MaxSrc == 3     \* most entries the source directory holds
MaxRuns == 2    \* most runs of the script in one behaviour

----------------------------------------------------------------------------
(* Characters and names *)

UpperChars == <<"A","B","C","D","E","F","G","H","I","J","K","L","M",
                "N","O","P","Q","R","S","T","U","V","W","X","Y","Z">>
LowerChars == <<"a","b","c","d","e","f","g","h","i","j","k","l","m",
                "n","o","p","q","r","s","t","u","v","w","x","y","z">>

\* str.lower() on one character
LowerChar(c) ==
    IF \E i \in 1..Len(UpperChars) : UpperChars[i] = c
    THEN LowerChars[CHOOSE i \in 1..Len(UpperChars) : UpperChars[i] = c]
    ELSE c

\* str.lower()
Lower(s) == [i \in 1..Len(s) |-> LowerChar(s[i])]

\* str.endswith(suffix)
EndsWith(s, suffix) ==
    /\ Len(suffix) <= Len(s)
    /\ SubSeq(s, Len(s) - Len(suffix) + 1, Len(s)) = suffix

DotPng == <<".","p","n","g">>
DotJpg == <<".","j","p","g">>
DotJpeg == <<".","j","p","e","g">>
DotImageset == <<".","i","m","a","g","e","s","e","t">>
ContentsJson == <<"C","o","n","t","e","n","t","s",".","j","s","o","n">>

\* the tuple of suffixes of line 21
ImageSuffixes == {DotPng, DotJpg, DotJpeg}

\* a variant that forgets .lower()
HasImageSuffixCaseSensitive(f) == \E sfx \in ImageSuffixes : EndsWith(f, sfx)

\* the filter of line 21: f.lower().endswith(('.png', '.jpg', '.jpeg'))
HasImageSuffix(f) == \E sfx \in ImageSuffixes : EndsWith(Lower(f), sfx)

\* str.rfind("."), 1-based, 0 when there is no dot
RFindDot(s) ==
    IF \E i \in 1..Len(s) : s[i] = "."
    THEN CHOOSE i \in 1..Len(s) :
            s[i] = "." /\ \A j \in (i+1)..Len(s) : s[j] # "."
    ELSE 0

\* os.path.splitext(filename)[0] for a name without separators: the name up
\* to its last dot, unless only dots precede that dot (then the whole name)
SplitextRoot(s) ==
    LET d == RFindDot(s) IN
    IF d > 0 /\ \E k \in 1..(d-1) : s[k] # "."
    THEN SubSeq(s, 1, d - 1)
    ELSE s

\* line 25: the container's name, f"{name_without_ext}.imageset"
ImagesetName(filename) == SplitextRoot(filename) \o DotImageset

----------------------------------------------------------------------------
(* File contents and filesystem trees *)

\* the content (and metadata) of an image or other plain file
Raw(n) == [type |-> "raw", bytes |-> n]

NoData == [type |-> "none"]

\* lines 14-19: the root descriptor
RootDescriptor == [type |-> "json", info |-> [author |-> "xcode", version |-> 1]]

\* a variant that names the container instead of the file in the 1x entry
ImageDescriptorNamingContainer(filename) ==
    [type |-> "json",
     images |-> << [filename |-> SplitextRoot(filename), idiom |-> "universal", scale |-> "1x"],
                   [idiom |-> "universal", scale |-> "2x"],
                   [idiom |-> "universal", scale |-> "3x"] >>,
     info |-> [author |-> "xcode", version |-> 1]]

\* lines 33-53: the image descriptor
ImageDescriptor(filename) ==
    [type |-> "json",
     images |-> << [filename |-> filename, idiom |-> "universal", scale |-> "1x"],
                   [idiom |-> "universal", scale |-> "2x"],
                   [idiom |-> "universal", scale |-> "3x"] >>,
     info |-> [author |-> "xcode", version |-> 1]]

FileNode(data) == [kind |-> "file", data |-> data]
DirNode == [kind |-> "dir", data |-> NoData]

NoEntries == [p \in {} |-> DirNode]

\* the three things a path can be: nothing, a regular file, a directory
Absent == [kind |-> "absent", entries |-> NoEntries]
PlainFile == [kind |-> "file", entries |-> NoEntries]
EmptyDir == [kind |-> "dir", entries |-> NoEntries]

\* entries e with node n put at path p
Put(e, p, n) == [q \in DOMAIN e \cup {p} |-> IF q = p THEN n ELSE e[q]]

\* entries e without the paths in ps
Without(e, ps) == [q \in DOMAIN e \ ps |-> e[q]]

\* the entries of all the entry maps in S together (their domains are disjoint)
Merge(S) ==
    [p \in UNION {DOMAIN e : e \in S} |-> (CHOOSE e \in S : p \in DOMAIN e)[p]]

----------------------------------------------------------------------------
(* The names and directory contents the model draws its inputs from *)

LogoPng == <<"l","o","g","o",".","p","n","g">>
LogoJpg == <<"l","o","g","o",".","j","p","g">>
PhotoPNG == <<"P","h","o","t","o",".","P","N","G">>
PhotoPng == <<"p","h","o","t","o",".","p","n","g">>
IconJpeg == <<"i","c","o","n",".","j","p","e","g">>
NotesTxt == <<"n","o","t","e","s",".","t","x","t">>
AnimGif == <<"a","n","i","m",".","g","i","f">>
HiddenPng == <<".","p","n","g">>
Sub == <<"s","u","b">>
InnerPng == <<"i","n","n","e","r",".","p","n","g">>
ShotsPng == <<"s","h","o","t","s",".","p","n","g">>
OldTxt == <<"o","l","d",".","t","x","t">>
LogoImageset == <<"l","o","g","o",".","i","m","a","g","e","s","e","t">>

\* what the source directory may hold: each item is one direct child, given
\* with everything below it
SourceItems ==
    { [p \in {<<LogoPng>>} |-> FileNode(Raw(1))],
      [p \in {<<LogoJpg>>} |-> FileNode(Raw(2))],
      [p \in {<<PhotoPNG>>} |-> FileNode(Raw(3))],
      [p \in {<<PhotoPng>>} |-> FileNode(Raw(4))],
      [p \in {<<IconJpeg>>} |-> FileNode(Raw(5))],
      [p \in {<<NotesTxt>>} |-> FileNode(Raw(6))],
      [p \in {<<AnimGif>>} |-> FileNode(Raw(7))],
      [p \in {<<HiddenPng>>} |-> FileNode(Raw(8))],
      [p \in {<<Sub>>, <<Sub, InnerPng>>} |->
          IF p = <<Sub>> THEN DirNode ELSE FileNode(Raw(9))],
      [p \in {<<ShotsPng>>, <<ShotsPng, InnerPng>>} |->
          IF p = <<ShotsPng>> THEN DirNode ELSE FileNode(Raw(10))] }

\* the source path: missing, a regular file, or a directory of at most
\* MaxSrc of the items
SourceStates ==
    {Absent, PlainFile} \cup
    { [kind |-> "dir", entries |-> Merge(S)] :
        S \in {T \in SUBSET SourceItems : Cardinality(T) <= MaxSrc} }

\* a destination left over from earlier work: a stray file, and a container
\* logo.imageset holding an outdated image and no descriptor
StaleDir ==
    [kind |-> "dir",
     entries |->
        [p \in {<<OldTxt>>, <<LogoImageset>>, <<LogoImageset, LogoPng>>} |->
            IF p = <<LogoImageset>> THEN DirNode ELSE FileNode(Raw(0))]]

\* what the destination path may be before a run
PriorDest == {Absent, PlainFile, EmptyDir, StaleDir}

----------------------------------------------------------------------------
(* The library calls the script makes, as functions of the trees *)

\* line 8: os.path.exists(dest_dir)
Exists(t) == t.kind # "absent"

\* line 9: shutil.rmtree raises NotADirectoryError on a path that is not a
\* directory
RmtreeRaises(t) == t.kind # "dir"

\* a reset that keeps what an existing directory holds
ResetKeeping(t) == IF t.kind = "dir" THEN t ELSE EmptyDir

\* lines 9-10: the destination after rmtree (when it exists) and makedirs
ResetTree(t) == EmptyDir

\* a variant in which a missing source lists as empty
ListdirNeverRaises(t) == FALSE

\* line 21: os.listdir raises when the path is missing or not a directory
ListdirRaises(t) == t.kind # "dir"

\* line 21: os.listdir yields the names of the direct children, of any kind
Listdir(t) == { p[1] : p \in {q \in DOMAIN t.entries : Len(q) = 1} }

\* line 21: the names the comprehension keeps
Selected(t) == { f \in Listdir(t) : HasImageSuffix(f) }

\* the orders in which the listing may yield the names of S
Orders(S) ==
    { o \in [1..Cardinality(S) -> S] : \A i, j \in DOMAIN o : o[i] = o[j] => i = j }

\* line 26: os.makedirs raises FileExistsError when the path exists
MakedirsRaises(t, name) == <<name>> \in DOMAIN t.entries

\* line 29: shutil.copy2 raises IsADirectoryError when the source is a directory
Copy2Raises(s, filename) == s.entries[<<filename>>].kind # "file"

\* line 29: shutil.copy2 puts a file with the source's content and metadata
\* at <container>/<filename>
Copy2(e, s, filename, container) ==
    Put(e, <<container, filename>>, s.entries[<<filename>>])

\* a variant that moves the file (shutil.move)
SourceAfterMove(s, filename) ==
    [s EXCEPT !.entries = Without(s.entries, {<<filename>>})]

\* line 29: what shutil.copy2 leaves at the source
SourceAfterCopy2(s, filename) == s

\* a variant that leaves the loop before the last file
LoopDoneEarly(i, fs) == i >= Len(fs)

\* line 23: the for loop has gone through the whole list
LoopDone(i, fs) == i > Len(fs)

\* a step of the run, for the history
Step(op, file) == [op |-> op, file |-> file]

----------------------------------------------------------------------------
(* What may happen to the destination between two runs *)

\* the directories directly under the root of tree t
Containers(t) ==
    { p[1] : p \in {q \in DOMAIN t.entries : Len(q) = 1 /\ t.entries[q].kind = "dir"} }

\* the destination as it may be found at the start of a later run: as the
\* previous run left it, removed, or a directory changed by hand (a file
\* added at the top, a file added in every container, the descriptors removed)
Edited(t) ==
    {t, Absent} \cup
    IF t.kind # "dir" THEN {} ELSE
    { [t EXCEPT !.entries = Put(t.entries, <<OldTxt>>, FileNode(Raw(0)))],
      [t EXCEPT !.entries =
          [p \in DOMAIN t.entries \cup {<<c, OldTxt>> : c \in Containers(t)} |->
              IF p \in DOMAIN t.entries THEN t.entries[p] ELSE FileNode(Raw(0))]],
      [t EXCEPT !.entries =
          Without(t.entries, {p \in DOMAIN t.entries : p[Len(p)] = ContentsJson})] }

----------------------------------------------------------------------------
(* The script *)

Init ==
    /\ src \in SourceStates
    /\ dst \in PriorDest
    /\ pc = "reset"
    /\ files = <<>>
    /\ idx = 1
    /\ printed = 0
    /\ log = {}
    /\ failedAt = ""
    /\ run = 1
    /\ src0 = src
    /\ dst0 = dst
    /\ firstOk = FALSE
    /\ firstTree = Absent
    /\ firstFiles = <<>>

\* an uncaught exception at the given step ends the run
Raise(step) ==
    /\ pc' = "failed"
    /\ failedAt' = step

\* lines 8-10: remove the destination if it exists, create it empty
ResetDest ==
    /\ pc = "reset"
    /\ IF Exists(dst) /\ RmtreeRaises(dst)
       THEN /\ Raise("reset")
            /\ UNCHANGED <<dst, log>>
       ELSE /\ dst' = ResetTree(dst)
            /\ pc' = "root"
            /\ log' = log \cup {Step("reset", <<>>)}
            /\ UNCHANGED failedAt
    /\ UNCHANGED <<src, files, idx, printed, run, src0, dst0,
                   firstOk, firstTree, firstFiles>>

\* lines 13-19: write <dest>/Contents.json
WriteRoot ==
    /\ pc = "root"
    /\ dst' = [dst EXCEPT !.entries = Put(@, <<ContentsJson>>, FileNode(RootDescriptor))]
    /\ pc' = "list"
    /\ log' = log \cup {Step("root", <<>>)}
    /\ UNCHANGED <<src, files, idx, printed, failedAt, run, src0, dst0,
                   firstOk, firstTree, firstFiles>>

\* line 21: list the source and keep the names with an image suffix
ListSource ==
    /\ pc = "list"
    /\ IF ListdirRaises(src)
       THEN /\ Raise("list")
            /\ UNCHANGED <<files, log>>
       ELSE /\ \E order \in Orders(Selected(src)) : files' = order
            /\ pc' = "loop"
            /\ log' = log \cup {Step("list", <<>>)}
            /\ UNCHANGED failedAt
    /\ UNCHANGED <<src, dst, idx, printed, run, src0, dst0,
                   firstOk, firstTree, firstFiles>>

\* lines 23-26: take the next file and create its container
MakeImageset ==
    /\ pc = "loop"
    /\ ~LoopDone(idx, files)
    /\ LET filename == files[idx]
           imageset == ImagesetName(filename)
       IN IF MakedirsRaises(dst, imageset)
          THEN /\ Raise("makedirs")
               /\ UNCHANGED <<dst, log>>
          ELSE /\ dst' = [dst EXCEPT !.entries = Put(@, <<imageset>>, DirNode)]
               /\ pc' = "copy"
               /\ log' = log \cup {Step("makedirs", filename)}
               /\ UNCHANGED failedAt
    /\ UNCHANGED <<src, files, idx, printed, run, src0, dst0,
                   firstOk, firstTree, firstFiles>>

\* line 29: copy the file into its container
CopyFile ==
    /\ pc = "copy"
    /\ LET filename == files[idx]
           imageset == ImagesetName(filename)
       IN IF Copy2Raises(src, filename)
          THEN /\ Raise("copy")
               /\ UNCHANGED <<src, dst, log>>
          ELSE /\ dst' = [dst EXCEPT !.entries = Copy2(@, src, filename, imageset)]
               /\ src' = SourceAfterCopy2(src, filename)
               /\ pc' = "descriptor"
               /\ log' = log \cup {Step("copy", filename)}
               /\ UNCHANGED failedAt
    /\ UNCHANGED <<files, idx, printed, run, src0, dst0,
                   firstOk, firstTree, firstFiles>>

\* lines 32-53: write the container's Contents.json, go on to the next file
WriteDescriptor ==
    /\ pc = "descriptor"
    /\ LET filename == files[idx]
           imageset == ImagesetName(filename)
       IN /\ dst' = [dst EXCEPT !.entries =
                        Put(@, <<imageset, ContentsJson>>, FileNode(ImageDescriptor(filename)))]
          /\ log' = log \cup {Step("descriptor", filename)}
    /\ idx' = idx + 1
    /\ pc' = "loop"
    /\ UNCHANGED <<src, files, printed, failedAt, run, src0, dst0,
                   firstOk, firstTree, firstFiles>>

\* line 55: the loop is over, print "Migration complete"
PrintComplete ==
    /\ pc = "loop"
    /\ LoopDone(idx, files)
    /\ printed' = printed + 1
    /\ pc' = "done"
    /\ firstOk' = TRUE
    /\ firstTree' = IF firstOk THEN firstTree ELSE dst
    /\ firstFiles' = IF firstOk THEN firstFiles ELSE files
    /\ UNCHANGED <<src, dst, files, idx, log, failedAt, run, src0, dst0>>

\* the script is run again on the same source; the destination is what the
\* previous run left, possibly changed in between
Rerun ==
    /\ pc \in {"done", "failed"}
    /\ run < MaxRuns
    /\ run' = run + 1
    /\ \E t \in Edited(dst) : dst' = t /\ dst0' = t
    /\ pc' = "reset"
    /\ files' = <<>>
    /\ idx' = 1
    /\ printed' = 0
    /\ log' = {}
    /\ failedAt' = ""
    /\ UNCHANGED <<src, src0, firstOk, firstTree, firstFiles>>

Next ==
    \/ ResetDest
    \/ WriteRoot
    \/ ListSource
    \/ MakeImageset
    \/ CopyFile
    \/ WriteDescriptor
    \/ PrintComplete
    \/ Rerun

Spec == Init /\ [][Next]_vars

TypeOK ==
    /\ pc \in {"reset", "root", "list", "loop", "copy", "descriptor", "done", "failed"}
    /\ src.kind \in {"absent", "file", "dir"}
    /\ dst.kind \in {"absent", "file", "dir"}
    /\ idx \in 1..(Len(files) + 1)
    /\ printed \in 0..1
    /\ run \in 1..MaxRuns

----------------------------------------------------------------------------
(* Vocabulary of the properties *)

\* the names of the model that end, case-insensitively, in .png, .jpg or
\* .jpeg, listed by hand
ImageNames == {LogoPng, LogoJpg, PhotoPNG, PhotoPng, IconJpeg, HiddenPng, ShotsPng, InnerPng}

\* the direct children of tree t that are regular files / directories
FileChildren(t) == { f \in Listdir(t) : t.entries[<<f>>].kind = "file" }
DirChildren(t) == { f \in Listdir(t) : t.entries[<<f>>].kind = "dir" }

\* the qualifying images of tree t
Images(t) == FileChildren(t) \cap ImageNames

\* the names in the list built at line 21
Listed == { files[i] : i \in 1..Len(files) }

Did(op, file) == Step(op, file) \in log

\* the paths of the destination directly inside container c
Inside(c) == { p \in DOMAIN dst.entries : Len(p) = 2 /\ p[1] = c }

\* container c holds exactly a copy of source file f and a descriptor whose
\* 1x entry names f and whose 2x and 3x entries have no filename
Holds(c, f) ==
    /\ Inside(c) = {<<c, f>>, <<c, ContentsJson>>}
    /\ dst.entries[<<c, f>>].kind = "file"
    /\ src0.entries[<<f>>].kind = "file"
    /\ dst.entries[<<c, f>>].data = src0.entries[<<f>>].data
    /\ dst.entries[<<c, ContentsJson>>].kind = "file"
    /\ LET d == dst.entries[<<c, ContentsJson>>].data
       IN /\ d.type = "json"
          /\ Len(d.images) = 3
          /\ DOMAIN d.images[1] = {"filename", "idiom", "scale"}
          /\ d.images[1].filename = f
          /\ d.images[1].scale = "1x"
          /\ \A i \in 2..3 : "filename" \notin DOMAIN d.images[i]
          /\ d.images[2].scale = "2x"
          /\ d.images[3].scale = "3x"

\* container c is complete: it holds some source file and its descriptor
Complete(c) == \E f \in Listdir(src0) : Holds(c, f)

\* the destination holds the root descriptor
RootPresent ==
    /\ dst.kind = "dir"
    /\ <<ContentsJson>> \in DOMAIN dst.entries
    /\ dst.entries[<<ContentsJson>>] = FileNode(RootDescriptor)

----------------------------------------------------------------------------
(* Properties *)

\* the source directory exists and contains only image files whose
\* containers have pairwise distinct names
ValidSource(s) ==
    /\ s.kind = "dir"
    /\ \A p \in DOMAIN s.entries : Len(p) = 1 /\ p[1] \in Images(s)
    /\ \A f, g \in Images(s) : SplitextRoot(f) = SplitextRoot(g) => f = g

\* C1: for every run whose source directory exists and contains only image
\* files with pairwise distinct basenames, the run completes, and the
\* destination then holds exactly the root Contents.json and, for each image
\* name.ext, a directory name.imageset holding a copy of name.ext and a
\* descriptor naming it in the 1x entry: N+1 directories (the destination
\* included), N+1 JSON files and N copies.
C1_ValidSourceGivesExactCatalog ==
    ValidSource(src0) =>
        /\ pc # "failed"
        /\ pc = "done" =>
            /\ RootPresent
            /\ Containers(dst) = { SplitextRoot(f) \o DotImageset : f \in Images(src0) }
            /\ \A f \in Images(src0) : Holds(SplitextRoot(f) \o DotImageset, f)
            /\ { p \in DOMAIN dst.entries : Len(p) = 1 } =
                  {<<ContentsJson>>} \cup { <<c>> : c \in Containers(dst) }
            /\ Cardinality(Containers(dst)) + 1 = Cardinality(Images(src0)) + 1
            /\ Cardinality({ p \in DOMAIN dst.entries : p[Len(p)] = ContentsJson })
                  = Cardinality(Images(src0)) + 1
            /\ Cardinality({ p \in DOMAIN dst.entries :
                               dst.entries[p].kind = "file" /\ p[Len(p)] # ContentsJson })
                  = Cardinality(Images(src0))

\* the destination holds the root descriptor and nothing else
OnlyRoot ==
    /\ RootPresent
    /\ DOMAIN dst.entries = {<<ContentsJson>>}

\* C2 (as stated): if the source path does not exist or is not a directory,
\* the run fails, and when it aborts the only change made is the reset of the
\* destination: the destination is an empty directory, without even a root
\* descriptor.
C2_SourceMissingLeavesOnlyReset ==
    src0.kind # "dir" =>
        /\ pc \notin {"loop", "copy", "descriptor", "done"}
        /\ (pc = "failed" /\ failedAt = "list") => (dst = EmptyDir /\ src = src0)

\* C2 (amended): if the source path does not exist or is not a directory, the
\* run fails before any file is processed, and when it aborts the destination
\* is either untouched (the reset itself raised) or has been reset and holds
\* the root Contents.json and nothing else: no container, copy or image
\* descriptor has been written, and the source is unchanged.
C2_SourceMissingLeavesResetAndRoot ==
    src0.kind # "dir" =>
        /\ pc \notin {"loop", "copy", "descriptor", "done"}
        /\ pc = "failed" =>
            /\ src = src0
            /\ \/ failedAt = "reset" /\ dst = dst0
               \/ failedAt = "list" /\ OnlyRoot

\* a run on a missing source has aborted at the listing, after wiping a
\* destination that held entries
C2_Witness ==
    /\ src0.kind = "absent"
    /\ pc = "failed"
    /\ failedAt = "list"
    /\ dst0 = StaleDir

\* C3: whatever is at the destination path before a run (nothing, a regular
\* file, a directory tree), the reset step removes it and leaves the
\* destination a freshly created empty directory; nothing that was there
\* before the run is there after the reset.
C3_ResetAlwaysLeavesEmptyDir ==
    /\ pc # "reset" => (Did("reset", <<>>) /\ dst.kind = "dir")
    /\ pc = "root" => dst = EmptyDir

\* C4: a direct child file of the source is selected, copied and given a
\* container if and only if its name ends, case-insensitively, in .png, .jpg
\* or .jpeg; a file with another suffix is never copied and gets no container.
C4_SelectedIffImageSuffix ==
    /\ Did("list", <<>>) =>
          \A f \in FileChildren(src0) : f \in Listed <=> f \in ImageNames
    /\ Did("reset", <<>>) =>
          \A f \in FileChildren(src0) \ ImageNames :
              /\ \A p \in DOMAIN dst.entries : p[Len(p)] # f
              /\ <<SplitextRoot(f) \o DotImageset>> \notin DOMAIN dst.entries
    /\ pc = "done" =>
          \A f \in Images(src0) : Holds(SplitextRoot(f) \o DotImageset, f)

\* a completed run on a source holding Photo.PNG, photo.png and notes.txt
C4_Witness ==
    /\ pc = "done"
    /\ {PhotoPNG, PhotoPng, NotesTxt} \subseteq FileChildren(src0)
    /\ Listed = {PhotoPNG, PhotoPng}

\* C5: subdirectories of the source are ignored: for every direct child that
\* is a directory, whatever its name, the run creates no container for it,
\* copies nothing from it and does not fail because of it.
C5_SubdirectoriesIgnored ==
    \A d \in DirChildren(src0) :
        /\ d \notin Listed
        /\ Did("reset", <<>>) =>
              /\ <<SplitextRoot(d) \o DotImageset>> \notin DOMAIN dst.entries
              /\ \A p \in DOMAIN dst.entries : p[Len(p)] \notin {d, InnerPng}
        /\ ~(pc = "failed" /\ failedAt \in {"makedirs", "copy"} /\ files[idx] = d)

\* two selected files of the source share a basename
Colliding(s) ==
    s.kind = "dir" /\
    \E f, g \in Images(s) : f # g /\ SplitextRoot(f) = SplitextRoot(g)

\* C6: if two selected source files share a basename and differ only in
\* extension, the run fails at the creation of the second file's container:
\* the first file's container has been created, the second creation raises,
\* and the run aborts there, processing no further file and printing no
\* completion message.
C6_CollisionFailsAtSecondContainer ==
    Colliding(src0) =>
        /\ pc # "done"
        /\ printed = 0
        /\ pc = "failed" =>
            /\ failedAt = "makedirs"
            /\ \E j \in 1..(idx - 1) :
                  /\ files[j] # files[idx]
                  /\ SplitextRoot(files[j]) = SplitextRoot(files[idx])
                  /\ Did("makedirs", files[j])
            /\ \A k \in idx..Len(files), op \in {"makedirs", "copy", "descriptor"} :
                  ~Did(op, files[k])

\* C7: once a run has succeeded on a source, every later run on the unchanged
\* source succeeds and leaves the same destination tree as the first, whatever
\* the destination held in between and whatever order the listing yields.
C7_RerunGivesSameTree ==
    firstOk =>
        /\ pc # "failed"
        /\ pc = "done" => dst = firstTree

\* a second run has completed with another listing order than the first, on
\* a destination directory that was changed by hand after the first run
C7_Witness ==
    /\ run = 2
    /\ pc = "done"
    /\ firstOk
    /\ Len(files) >= 2
    /\ files # firstFiles
    /\ dst0.kind = "dir"
    /\ dst0 # firstTree

\* C8: the completion message is printed at most once per run, and only
\* after the reset, the root descriptor and the container, copy and
\* descriptor of every selected file have succeeded; a run that aborts never
\* prints it.
C8_CompletionOnlyAfterAllSteps ==
    /\ printed <= 1
    /\ pc = "failed" => printed = 0
    /\ pc = "done" => printed = 1
    /\ printed = 1 =>
        /\ pc = "done"
        /\ Did("reset", <<>>)
        /\ Did("root", <<>>)
        /\ \A f \in Listdir(src0) \cap ImageNames :
              Did("makedirs", f) /\ Did("copy", f) /\ Did("descriptor", f)

\* a run over at least two selected files has printed the message
C8_Witness ==
    /\ pc = "done"
    /\ printed = 1
    /\ Len(files) >= 2

\* C9: the source is left untouched: in every state of every run, completed
\* or aborted, the entries of the source and their contents are what they
\* were before the run.
C9_SourceUntouched == src = src0

\* a file has just been copied into its container
C9_Witness ==
    /\ pc = "descriptor"
    /\ Did("copy", files[idx])
    /\ <<SplitextRoot(files[idx]) \o DotImageset, files[idx]>> \in DOMAIN dst.entries

\* the container of the file being processed, if there is one
Current == IF idx <= Len(files) THEN {SplitextRoot(files[idx]) \o DotImageset} ELSE {}

\* C10: at every point of a run after the root descriptor has been written,
\* also in the final state of an aborted run, the destination holds the root
\* Contents.json; every container other than that of the file being processed
\* is complete; the containers of the files already processed are all there
\* (nothing is rolled back); at most one container is empty or lacks its
\* descriptor.
C10_PartialStateInvariant ==
    Did("root", <<>>) =>
        /\ RootPresent
        /\ \A p \in DOMAIN dst.entries :
              Len(p) = 1 => (p = <<ContentsJson>> \/ p[1] \in Containers(dst))
        /\ \A c \in Containers(dst) \ Current : Complete(c)
        /\ \A j \in 1..(idx - 1) :
              Holds(SplitextRoot(files[j]) \o DotImageset, files[j])
        /\ Cardinality({ c \in Containers(dst) : ~Complete(c) }) <= 1

\* a run has aborted at the copy of its second file, leaving one complete
\* container and one empty one
C10_Witness ==
    /\ pc = "failed"
    /\ failedAt = "copy"
    /\ idx = 2
    /\ Cardinality(Containers(dst)) = 2
    /\ Inside(SplitextRoot(files[idx]) \o DotImageset) = {}

====
